---- MODULE Spec2Model ----
(***************************************************************************)
(* The Redis-backed chat message store of lab 11                           *)
(* (src/11-external-persistence/redis_chat_message_store.py).              *)
(*                                                                         *)
(* Strings are sequences of tokens, so that concatenation (\o) and the     *)
(* derivation of a key from a prefix and a thread id are computed, not     *)
(* assumed.  An optional integer is <<>> (None) or <<k>>.                  *)
(***************************************************************************)
EXTENDS Integers, Sequences, FiniteSets, TLC

VARIABLES
    stores,   \* the constructed RedisChatMessageStore objects: name -> fields
    redis,    \* the remote servers: url -> (key -> list of entries); a key
              \* that holds no list is not in the domain
    pushed,   \* history: url -> (key -> the messages handed to add_messages for
              \* the key since the key was last deleted), never trimmed
    uuids,    \* how many uuid4() values have been drawn
    ret,      \* what the last operation did: its name, its outcome, the value
              \* it returned, the remote commands it issued, how many clients
              \* it made with redis.from_url
    inflight, \* the add_messages calls that are between two of their awaits:
              \* name of the object -> where the call stands
    closed,   \* the objects whose aclose has been called
    lab04,    \* the session loop of lab 04 (src/04-human-in-loop/app.py)
    lab11,    \* the interactive loop of lab 11 (src/11-external-persistence/app.py)
    lab10     \* the menu loop of lab 10 (src/10-persisting-conversations/app.py)

apps == <<lab04, lab11, lab10>>

vars == <<stores, redis, pushed, uuids, ret, inflight, closed, apps>>

(***************************************************************************)
(* Bounds of the model.                                                    *)
(***************************************************************************)
MaxK == 3          \* the largest max_messages a store is configured with
MaxBatch == 2      \* the longest batch handed to add_messages
MaxLog == 5        \* pushes to the keys of one log before a clear (SpecLog)
MaxShared == 2     \* pushes to all keys together (Spec, SpecPair, SpecRoundTrip)

Stores == {"s1", "s2"}
One == {"s1"}

(***************************************************************************)
(* Values.                                                                 *)
(***************************************************************************)
None == <<"<None>">>           \* Python's None where a string may stand
NoMax == <<>>                  \* max_messages = None
EmptyStr == <<>>               \* ""

U1 == <<"redis://", "a">>
U2 == <<"redis://", "b">>
Urls == {U1, U2}
BadUrl == <<"localhost", ":6379">>      \* no scheme: redis.from_url rejects it

T1 == <<"t", "1">>
DefaultPrefix == <<"chat_messages">>
Lab11 == <<"lab11">>
Prefixes == {DefaultPrefix, Lab11}

UuidToken == <<"uuid-1", "uuid-2", "uuid-3">>

Maxes == {NoMax} \cup {<<k>> : k \in 0..MaxK}

MsgA == [role |-> "user", text |-> "A"]
MsgB == [role |-> "assistant", text |-> "B"]
Msgs == {MsgA, MsgB}

\* an application loop that has not been started
NoSession == [pc |-> "off"]

Truthy(v) == v # None /\ v # <<>>

RECURSIVE SeqsUpTo(_, _)
SeqsUpTo(S, n) ==
    IF n = 0 THEN {<<>>}
    ELSE LET shorter == SeqsUpTo(S, n - 1)
         IN  shorter \cup {Append(q, x) : q \in {r \in shorter : Len(r) = n - 1}, x \in S}

Batches(S) == SeqsUpTo(S, MaxBatch)

(***************************************************************************)
(* The codec: _serialize_message (to_dict, then json.dumps with compact    *)
(* separators) and _deserialize_message (json.loads, then from_dict).      *)
(***************************************************************************)
serialize_message(m) ==
    <<"{", "\"role\":", m.role, ",", "\"text\":", m.text, "}">>

IsJsonMessage(str) ==
    /\ Len(str) = 7
    /\ str[1] = "{" /\ str[2] = "\"role\":" /\ str[4] = ","
    /\ str[5] = "\"text\":" /\ str[7] = "}"

deserialize_message(str) == [role |-> str[3], text |-> str[6]]

(***************************************************************************)
(* The remote server's list commands (Redis semantics of the indices:      *)
(* a negative index counts from the tail, 0 is the head).                  *)
(***************************************************************************)
Norm(i, llen) == IF i < 0 THEN (IF llen + i < 0 THEN 0 ELSE llen + i) ELSE i

Range(list, start, stop) ==
    LET llen == Len(list)
        b == Norm(start, llen)
        e0 == IF stop < 0 THEN llen + stop ELSE stop
        e == IF e0 >= llen THEN llen - 1 ELSE e0
    IN  IF b > e0 \/ b >= llen THEN <<>> ELSE SubSeq(list, b + 1, e + 1)

Get(db, key) == IF key \in DOMAIN db THEN db[key] ELSE <<>>

Put(db, key, list) ==
    IF list = <<>>
    THEN [k \in DOMAIN db \ {key} |-> db[k]]
    ELSE [k \in DOMAIN db \cup {key} |-> IF k = key THEN list ELSE db[k]]

\* a slip: LPUSH-like, the values put before the existing entries
rpush_at_head(db, key, values) == Put(db, key, values \o Get(db, key))

rpush(db, key, values) == Put(db, key, Get(db, key) \o values)
llen(db, key) == Len(Get(db, key))
ltrim(db, key, start, stop) == Put(db, key, Range(Get(db, key), start, stop))
lrange(db, key, start, stop) == Range(Get(db, key), start, stop)
\* a slip: the key is left as it is
delete_nothing(db, key) == db

delete(db, key) == Put(db, key, <<>>)

\* the history of a key: extended by what add_messages is given, forgotten
\* when the key is deleted
Recorded(h, key, messages) ==
    IF messages = <<>> THEN h
    ELSE [k \in DOMAIN h \cup {key} |->
             IF k = key THEN (IF key \in DOMAIN h THEN h[key] ELSE <<>>) \o messages
             ELSE h[k]]

Forgotten(h, key) == [k \in DOMAIN h \ {key} |-> h[k]]

History(h, key) == IF key \in DOMAIN h THEN h[key] ELSE <<>>

(***************************************************************************)
(* RedisChatMessageStore.                                                  *)
(***************************************************************************)
UrlParses(url) ==
    /\ url # None
    /\ Len(url) > 0
    /\ url[1] \in {"redis://", "rediss://", "unix://"}

from_url(url) == [url |-> url]

\* a slip: the key does not name the thread
redis_key_prefix_only(st) == st.key_prefix

\* a slip: the key is the thread id alone
redis_key_thread_only(st) == st.thread_id

redis_key(st) == st.key_prefix \o <<":">> \o st.thread_id

\* an entry of a remote list: the serialized message, and (history only, read
\* by no operation) the object that pushed it
Entry(s, m) == [data |-> serialize_message(m), by |-> s]
Datas(list) == [i \in 1..Len(list) |-> list[i].data]

Ret(op, status, value, calls, clients) ==
    [op |-> op, status |-> status, value |-> value, calls |-> calls,
     clients |-> clients]


\* a slip: only None is refused, and the client is made without the URL
\* being parsed
Init_store_none_only(redis_url, thread_id, key_prefix, max_messages, uuid) ==
    IF redis_url = None
    THEN [raised |-> "ValueError"]
    ELSE [raised |-> "",
          self |-> [redis_url |-> redis_url,
                    thread_id |-> IF Truthy(thread_id) THEN thread_id
                                  ELSE <<"thread_", uuid>>,
                    key_prefix |-> key_prefix,
                    max_messages |-> max_messages,
                    client |-> from_url(redis_url)]]

\* __init__: the fields of the new object, or the error it raises
Init_store(redis_url, thread_id, key_prefix, max_messages, uuid) ==
    IF redis_url = None
    THEN [raised |-> "ValueError"]
    ELSE IF ~UrlParses(redis_url)
    THEN [raised |-> "ValueError"]       \* redis.from_url rejects the URL
    ELSE [raised |-> "",
          self |-> [redis_url |-> redis_url,
                    thread_id |-> IF Truthy(thread_id) THEN thread_id
                                  ELSE <<"thread_", uuid>>,
                    key_prefix |-> key_prefix,
                    max_messages |-> max_messages,
                    client |-> from_url(redis_url)]]

Construct(s, redis_url, thread_id, key_prefix, max_messages) ==
    /\ s \notin DOMAIN stores
    /\ uuids < Len(UuidToken)
    /\ LET new == Init_store(redis_url, thread_id, key_prefix, max_messages,
                             UuidToken[uuids + 1])
       IN  IF new.raised # ""
           THEN /\ ret' = Ret("__init__", new.raised, <<>>, <<>>, 0)
                /\ UNCHANGED <<stores, uuids>>
           ELSE /\ stores' = [t \in DOMAIN stores \cup {s} |->
                                 IF t = s THEN new.self ELSE stores[t]]
                /\ uuids' = IF Truthy(thread_id) THEN uuids ELSE uuids + 1
                /\ ret' = Ret("__init__", "ok", <<>>, <<>>, 1)
    /\ UNCHANGED <<redis, pushed>>
    /\ UNCHANGED <<inflight, closed, apps>>

\* a slip: add_messages without its early return for an empty batch
Add_effect_unguarded(db, key, entries, max_messages) ==
    LET db1 == rpush(db, key, entries)
    IN  IF max_messages # NoMax
        THEN LET current_count == llen(db1, key)
             IN  IF current_count > max_messages[1]
                 THEN [db |-> ltrim(db1, key, -max_messages[1], -1),
                       calls |-> <<"rpush", "llen", "ltrim">>]
                 ELSE [db |-> db1, calls |-> <<"rpush", "llen">>]
        ELSE [db |-> db1, calls |-> <<"rpush">>]

\* add_messages on one server's keys: the keys afterwards and the commands issued
Add_effect(db, key, entries, max_messages) ==
    IF entries = <<>>
    THEN [db |-> db, calls |-> <<>>]
    ELSE LET db1 == rpush(db, key, entries)
         IN  IF max_messages # NoMax
             THEN LET current_count == llen(db1, key)
                  IN  IF current_count > max_messages[1]
                      THEN [db |-> ltrim(db1, key, -max_messages[1], -1),
                            calls |-> <<"rpush", "llen", "ltrim">>]
                      ELSE [db |-> db1, calls |-> <<"rpush", "llen">>]
             ELSE [db |-> db1, calls |-> <<"rpush">>]

add_messages(s, messages) ==
    /\ s \in DOMAIN stores
    /\ LET st == stores[s]
           u == st.client.url
           key == redis_key(st)
           entries == [i \in 1..Len(messages) |-> Entry(s, messages[i])]
           eff == Add_effect(redis[u], key, entries, st.max_messages)
       IN  /\ redis' = [redis EXCEPT ![u] = eff.db]
           /\ pushed' = [pushed EXCEPT ![u] = Recorded(pushed[u], key, messages)]
           /\ ret' = Ret("add_messages", "ok", <<>>, eff.calls, 0)
    /\ UNCHANGED <<stores, uuids>>
    /\ UNCHANGED <<inflight, closed, apps>>

\* a slip: an entry that does not decode is skipped
List_result_skipping(st, servers) ==
    LET redis_messages == Datas(lrange(servers[st.client.url], redis_key(st), 0, -1))
        good == SelectSeq(redis_messages, IsJsonMessage)
    IN  [raised |-> "",
         messages |-> [i \in 1..Len(good) |-> deserialize_message(good[i])]]

\* list_messages: the messages returned, or the decoding error
List_result(st, servers) ==
    LET redis_messages == Datas(lrange(servers[st.client.url], redis_key(st), 0, -1))
    IN  IF \E i \in 1..Len(redis_messages) : ~IsJsonMessage(redis_messages[i])
        THEN [raised |-> "JSONDecodeError", messages |-> <<>>]
        ELSE [raised |-> "",
              messages |-> [i \in 1..Len(redis_messages) |->
                               deserialize_message(redis_messages[i])]]

list_messages(s) ==
    /\ s \in DOMAIN stores
    /\ LET res == List_result(stores[s], redis)
       IN  ret' = Ret("list_messages", IF res.raised = "" THEN "ok" ELSE res.raised,
                      res.messages, <<"lrange">>, 0)
    /\ UNCHANGED <<stores, redis, pushed, uuids>>
    /\ UNCHANGED <<inflight, closed, apps>>

\* a slip: the object takes the default prefix when it is cleared
clear_resetting_prefix(s) ==
    /\ s \in DOMAIN stores
    /\ LET st == stores[s]
           u == st.client.url
       IN  /\ redis' = [redis EXCEPT ![u] = delete(redis[u], redis_key(st))]
           /\ pushed' = [pushed EXCEPT ![u] = Forgotten(pushed[u], redis_key(st))]
    /\ ret' = Ret("clear", "ok", <<>>, <<"delete">>, 0)
    /\ stores' = [stores EXCEPT ![s].key_prefix = DefaultPrefix]
    /\ UNCHANGED <<uuids, inflight, closed, apps>>

clear(s) ==
    /\ s \in DOMAIN stores
    /\ LET st == stores[s]
           u == st.client.url
       IN  /\ redis' = [redis EXCEPT ![u] = delete(redis[u], redis_key(st))]
           /\ pushed' = [pushed EXCEPT ![u] = Forgotten(pushed[u], redis_key(st))]
    /\ ret' = Ret("clear", "ok", <<>>, <<"delete">>, 0)
    /\ UNCHANGED <<stores, uuids>>
    /\ UNCHANGED <<inflight, closed, apps>>

\* a slip: the prefix is left out of the state
State_of_without_prefix(st) ==
    [thread_id |-> st.thread_id, redis_url |-> st.redis_url,
     max_messages |-> st.max_messages]

\* RedisStoreState(...).model_dump()
State_of(st) ==
    [thread_id |-> st.thread_id, redis_url |-> st.redis_url,
     key_prefix |-> st.key_prefix, max_messages |-> st.max_messages]

serialize_state(s) ==
    /\ s \in DOMAIN stores
    /\ ret' = Ret("serialize_state", "ok", State_of(stores[s]), <<>>, 0)
    /\ UNCHANGED <<stores, redis, pushed, uuids>>
    /\ UNCHANGED <<inflight, closed, apps>>

\* a slip: thread_id given a default like the other fields
model_validate_lenient(rec) ==
    [raised |-> "",
     state |-> [thread_id |-> IF "thread_id" \in DOMAIN rec
                              THEN rec["thread_id"] ELSE EmptyStr,
                redis_url |-> IF "redis_url" \in DOMAIN rec
                              THEN rec["redis_url"] ELSE None,
                key_prefix |-> IF "key_prefix" \in DOMAIN rec
                               THEN rec["key_prefix"] ELSE DefaultPrefix,
                max_messages |-> IF "max_messages" \in DOMAIN rec
                                 THEN rec["max_messages"] ELSE NoMax]]

\* RedisStoreState.model_validate(record): thread_id is required, the other
\* fields have defaults
model_validate(rec) ==
    IF "thread_id" \notin DOMAIN rec \/ rec["thread_id"] = None
    THEN [raised |-> "ValidationError"]
    ELSE [raised |-> "",
          state |-> [thread_id |-> rec["thread_id"],
                     redis_url |-> IF "redis_url" \in DOMAIN rec
                                   THEN rec["redis_url"] ELSE None,
                     key_prefix |-> IF "key_prefix" \in DOMAIN rec
                                    THEN rec["key_prefix"] ELSE DefaultPrefix,
                     max_messages |-> IF "max_messages" \in DOMAIN rec
                                      THEN rec["max_messages"] ELSE NoMax]]

\* a slip: the client is made anew for every target, changed or not
Deserialize_effect_always_connects(st, rec) ==
    IF DOMAIN rec = {}
    THEN [self |-> st, status |-> "ok", clients |-> 0]
    ELSE LET v == model_validate(rec)
         IN  IF v.raised # ""
             THEN [self |-> st, status |-> v.raised, clients |-> 0]
             ELSE LET st1 == [st EXCEPT !.thread_id = v.state.thread_id,
                                        !.key_prefix = v.state.key_prefix,
                                        !.max_messages = v.state.max_messages]
                  IN  IF Truthy(v.state.redis_url)
                      THEN IF UrlParses(v.state.redis_url)
                           THEN [self |-> [st1 EXCEPT !.redis_url = v.state.redis_url,
                                                      !.client = from_url(v.state.redis_url)],
                                 status |-> "ok", clients |-> 1]
                           ELSE [self |-> [st1 EXCEPT !.redis_url = v.state.redis_url],
                                 status |-> "ValueError", clients |-> 0]
                      ELSE [self |-> st1, status |-> "ok", clients |-> 0]

\* deserialize_state on the fields st: the fields afterwards, the outcome and
\* the clients made
Deserialize_effect(st, rec) ==
    IF DOMAIN rec = {}
    THEN [self |-> st, status |-> "ok", clients |-> 0]
    ELSE LET v == model_validate(rec)
         IN  IF v.raised # ""
             THEN [self |-> st, status |-> v.raised, clients |-> 0]
             ELSE LET st1 == [st EXCEPT !.thread_id = v.state.thread_id,
                                        !.key_prefix = v.state.key_prefix,
                                        !.max_messages = v.state.max_messages]
                  IN  IF Truthy(v.state.redis_url) /\ v.state.redis_url # st.redis_url
                      THEN IF UrlParses(v.state.redis_url)
                           THEN [self |-> [st1 EXCEPT !.redis_url = v.state.redis_url,
                                                      !.client = from_url(v.state.redis_url)],
                                 status |-> "ok", clients |-> 1]
                           ELSE [self |-> [st1 EXCEPT !.redis_url = v.state.redis_url],
                                 status |-> "ValueError", clients |-> 0]
                      ELSE [self |-> st1, status |-> "ok", clients |-> 0]

deserialize_state(s, rec) ==
    /\ s \in DOMAIN stores
    /\ LET eff == Deserialize_effect(stores[s], rec)
       IN  /\ stores' = [stores EXCEPT ![s] = eff.self]
           /\ ret' = Ret("deserialize_state", eff.status, <<>>, <<>>, eff.clients)
    /\ UNCHANGED <<redis, pushed, uuids>>
    /\ UNCHANGED <<inflight, closed, apps>>

\* a slip: the stored messages are put into the document
serialize_with_messages(s) ==
    /\ s \in DOMAIN stores
    /\ ret' = Ret("serialize", "ok",
                  [messages |-> List_result(stores[s], redis).messages,
                   store_metadata |-> State_of(stores[s])], <<>>, 0)
    /\ UNCHANGED <<stores, redis, pushed, uuids>>
    /\ UNCHANGED <<inflight, closed, apps>>

serialize(s) ==
    /\ s \in DOMAIN stores
    /\ ret' = Ret("serialize", "ok",
                  [messages |-> <<>>, store_metadata |-> State_of(stores[s])], <<>>, 0)
    /\ UNCHANGED <<stores, redis, pushed, uuids>>
    /\ UNCHANGED <<inflight, closed, apps>>

\* serialized_store_state.get("store_metadata") if serialized_store_state else
\* None; an absent value is the empty record here, which `not` treats alike
Store_metadata(doc) ==
    IF "store_metadata" \in DOMAIN doc THEN doc["store_metadata"] ELSE << >>

update_from_state(s, doc) ==
    /\ s \in DOMAIN stores
    /\ LET redis_state == Store_metadata(doc)
       IN  IF DOMAIN redis_state = {}
           THEN /\ stores' = stores
                /\ ret' = Ret("update_from_state", "ok", <<>>, <<>>, 0)
           ELSE LET eff == Deserialize_effect(stores[s], redis_state)
                IN  /\ stores' = [stores EXCEPT ![s] = eff.self]
                    /\ ret' = Ret("update_from_state", eff.status, <<>>, <<>>,
                                  eff.clients)
    /\ UNCHANGED <<redis, pushed, uuids>>
    /\ UNCHANGED <<inflight, closed, apps>>

(***************************************************************************)
(* The inputs and the specifications.                                      *)
(***************************************************************************)
RECURSIVE SumLen(_, _)
SumLen(db, keys) ==
    IF keys = {} THEN 0
    ELSE LET k == CHOOSE x \in keys : TRUE
         IN  Len(db[k]) + SumLen(db, keys \ {k})

RECURSIVE TotalPushedIn(_)
TotalPushedIn(us) ==
    IF us = {} THEN 0
    ELSE LET u == CHOOSE x \in us : TRUE
         IN  SumLen(pushed[u], DOMAIN pushed[u]) + TotalPushedIn(us \ {u})

TotalPushed == TotalPushedIn(Urls)

Restrict(rec, D) == [f \in DOMAIN rec \cap D |-> rec[f]]

Fields == {"thread_id", "redis_url", "key_prefix", "max_messages"}

\* which fields a record carries: all, all but one of the first three, the
\* thread id alone, none
Omissions == {Fields, Fields \ {"thread_id"}, Fields \ {"redis_url"},
              Fields \ {"key_prefix"}, {"thread_id"}, {}}

SampleState == [thread_id |-> T1, redis_url |-> U2, key_prefix |-> Lab11,
                max_messages |-> <<MaxK>>]

\* the records handed to deserialize_state: what serialize_state returns for a
\* constructed object, a sample, one with an empty target, and each of these
\* with any fields left out
StateRecords ==
    LET full == {State_of(stores[a]) : a \in DOMAIN stores}
                  \cup {SampleState, [SampleState EXCEPT !.redis_url = EmptyStr],
                        [SampleState EXCEPT !.redis_url = BadUrl]}
    IN  {Restrict(r, D) : r \in full, D \in Omissions}

Init ==
    /\ stores = << >>
    /\ redis = [u \in Urls |-> << >>]
    /\ pushed = [u \in Urls |-> << >>]
    /\ uuids = 0
    /\ ret = Ret("", "ok", <<>>, <<>>, 0)
    /\ inflight = << >>
    /\ closed = {}
    /\ lab04 = NoSession
    /\ lab11 = NoSession
    /\ lab10 = NoSession

(***************************************************************************)
(* Spec: one object through its whole interface, reconfigured by           *)
(* deserialize_state with every kind of record.                            *)
(***************************************************************************)
CtorUrls == Urls \cup {None, EmptyStr, BadUrl}
CtorThreadIds == {None, EmptyStr, T1}
CtorMaxes == {NoMax, <<MaxK>>}

DoConstruct ==
    \E s \in One, url \in CtorUrls, tid \in CtorThreadIds,
       prefix \in Prefixes, max \in CtorMaxes :
        Construct(s, url, tid, prefix, max)

DoAdd ==
    \E s \in One, b \in Batches({MsgA}) :
        /\ TotalPushed + Len(b) <= MaxShared
        /\ add_messages(s, b)

DoClear == \E s \in One : clear(s)

DoList == \E s \in One : list_messages(s)

DoSerializeState == \E s \in One : serialize_state(s)

DoDeserializeState == \E s \in One, rec \in StateRecords : deserialize_state(s, rec)

Next ==
    DoConstruct \/ DoAdd \/ DoClear \/ DoList \/ DoSerializeState \/ DoDeserializeState

Spec == Init /\ [][Next]_vars

(***************************************************************************)
(* SpecLog: one log with one writer, an object that is never reconfigured. *)
(***************************************************************************)
LogConstruct ==
    \E s \in One, tid \in {None, T1}, max \in Maxes :
        Construct(s, U1, tid, DefaultPrefix, max)

LogAdd ==
    \E s \in One, b \in Batches(Msgs) :
        /\ TotalPushed + Len(b) <= MaxLog
        /\ add_messages(s, b)

LogList == \E s \in One : list_messages(s)

LogClear == \E s \in One : clear(s)

LogSerializeState == \E s \in One : serialize_state(s)

NextLog == LogConstruct \/ LogAdd \/ LogList \/ LogClear \/ LogSerializeState

SpecLog == Init /\ [][NextLog]_vars

(***************************************************************************)
(* SpecPair: two objects and any interleaving of their                      *)
(* add_messages, clear and list_messages calls.                            *)
(***************************************************************************)
PairConstruct ==
    \E s \in Stores, url \in Urls, tid \in {None, T1}, prefix \in Prefixes,
       max \in CtorMaxes :
        Construct(s, url, tid, prefix, max)

PairAdd ==
    \E s \in Stores, b \in Batches({MsgA}) :
        /\ TotalPushed + Len(b) <= MaxShared
        /\ add_messages(s, b)

PairList == \E s \in Stores : list_messages(s)

PairClear == \E s \in Stores : clear(s)

NextPair == PairConstruct \/ PairAdd \/ PairList \/ PairClear

SpecPair == Init /\ [][NextPair]_vars

(***************************************************************************)
(* SpecRoundTrip: SpecPair, and an object may be handed what               *)
(* serialize_state returns for the other.                                  *)
(***************************************************************************)
RoundTrip(a, b) ==
    /\ a \in DOMAIN stores
    /\ deserialize_state(b, State_of(stores[a]))

PairRoundTrip == \E a \in Stores : \E b \in Stores \ {a} : RoundTrip(a, b)

NextRoundTrip == NextPair \/ PairRoundTrip

SpecRoundTrip == Init /\ [][NextRoundTrip]_vars

(***************************************************************************)
(* Properties.                                                             *)
(***************************************************************************)
TheList(s) == List_result(stores[s], redis)
TheHistory(s) == History(pushed[stores[s].client.url], redis_key(stores[s]))
Stored(s) == Get(redis[stores[s].client.url], redis_key(stores[s]))

LastK(seq, k) == SubSeq(seq, Len(seq) - k + 1, Len(seq))
IsSuffix(a, b) == Len(a) <= Len(b) /\ a = LastK(b, Len(a))

\* C1 (as claimed): a store with max_messages = k that has been handed more
\* than k messages in all, in any split into batches, lists exactly the last
\* k of them, in the order they were appended.
C1_LastKListed ==
    \A s \in DOMAIN stores :
        LET k == stores[s].max_messages
        IN  (k # NoMax /\ Len(TheHistory(s)) > k[1])
                => TheList(s) = [raised |-> "", messages |-> LastK(TheHistory(s), k[1])]

\* C2 (as claimed): when a maximum is configured, after an add_messages call
\* has run to completion the list stored at redis_key holds at most
\* max_messages entries, for every configured maximum and every batch size.
C2_CountWithinMaximum ==
    ret.op = "add_messages" =>
        \A s \in DOMAIN stores :
            stores[s].max_messages # NoMax
                => Len(Stored(s)) <= stores[s].max_messages[1]

\* C3: with no maximum configured, list_messages returns exactly the messages
\* handed to add_messages, batch after batch and in input order; for a key
\* that does not exist it returns the empty sequence.
C3_AppendReadOrder ==
    \A s \in DOMAIN stores :
        stores[s].max_messages = NoMax
            => /\ TheList(s) = [raised |-> "", messages |-> TheHistory(s)]
               /\ (redis_key(stores[s]) \notin DOMAIN redis[stores[s].client.url]
                      => TheList(s).messages = <<>>)
               /\ (ret.op = "list_messages"
                      => ret.status = "ok" /\ ret.value = TheHistory(s))

C3_Witness ==
    /\ ret.op = "list_messages"
    /\ \E s \in DOMAIN stores :
          /\ stores[s].max_messages = NoMax
          /\ Len(ret.value) >= 3
          /\ ret.value[1] = MsgB /\ ret.value[2] = MsgA /\ ret.value[3] = MsgA

\* C4: add_messages with an empty sequence issues no command to the remote
\* store and leaves what list_messages returns unchanged, whatever the list
\* holds and whether or not a maximum is configured.
C4_EmptyAddStep ==
    \A s \in One :
        add_messages(s, <<>>)
            => /\ ret'.calls = <<>>
               /\ redis' = redis
               /\ List_result(stores'[s], redis') = List_result(stores[s], redis)

C4_EmptyAddIsNoOp == [][C4_EmptyAddStep]_vars

C4_Witness ==
    /\ ret.op = "add_messages" /\ ret.calls = <<>>
    /\ \E s \in DOMAIN stores :
          stores[s].max_messages # NoMax /\ Len(Stored(s)) >= 2

\* C5: clear leaves list_messages returning the empty sequence and
\* serialize_state returning the thread_id, key_prefix and max_messages it
\* returned before; afterwards the list under the same key holds only messages
\* appended since the clear, the newest of them last.
C5_ClearStep ==
    /\ \A s \in One :
          clear(s)
              => /\ List_result(stores'[s], redis') = [raised |-> "", messages |-> <<>>]
                 /\ redis_key(stores'[s]) \notin DOMAIN redis'[stores'[s].client.url]
                 /\ State_of(stores'[s]).thread_id = State_of(stores[s]).thread_id
                 /\ State_of(stores'[s]).key_prefix = State_of(stores[s]).key_prefix
                 /\ State_of(stores'[s]).max_messages = State_of(stores[s]).max_messages
    /\ \A s \in One :
          (s \in DOMAIN stores /\ \E b \in Batches(Msgs) : b # <<>> /\ add_messages(s, b))
              => /\ redis_key(stores'[s]) = redis_key(stores[s])
                 /\ List_result(stores'[s], redis').raised = ""
                 /\ List_result(stores'[s], redis').messages # <<>>
                 /\ IsSuffix(List_result(stores'[s], redis').messages,
                             History(pushed'[stores'[s].client.url], redis_key(stores'[s])))

C5_ClearResetsContent == [][C5_ClearStep]_vars

C5_Witness ==
    /\ ret.op = "clear"
    /\ \E s \in DOMAIN stores :
          /\ stores[s].max_messages # NoMax
          /\ TheList(s).messages = <<>>
          /\ TheHistory(s) = <<>>

\* C6: when an object b is handed what serialize_state returns for an object
\* a, b's thread_id, key_prefix and max_messages equal a's and list_messages
\* on b returns what it returns on a.
C6_RoundTripStep ==
    \A a \in Stores : \A b \in Stores \ {a} :
        RoundTrip(a, b)
            => /\ ret'.status = "ok"
               /\ stores'[b].thread_id = stores'[a].thread_id
               /\ stores'[b].key_prefix = stores'[a].key_prefix
               /\ stores'[b].max_messages = stores'[a].max_messages
               /\ List_result(stores'[b], redis') = List_result(stores'[a], redis')
               /\ List_result(stores'[a], redis') = List_result(stores[a], redis)

C6_ConfigRoundTrip == [][C6_RoundTripStep]_vars

\* both objects were constructed with their own generated thread_id, one has
\* appended, and the other now reads the same list after the round trip
C6_Witness ==
    /\ ret.op = "deserialize_state"
    /\ DOMAIN stores = Stores
    /\ uuids = 2
    /\ stores["s1"].thread_id = stores["s2"].thread_id
    /\ TheList("s1").messages # <<>>
    /\ TheList("s2") = TheList("s1")
    /\ \E a \in Stores : \A i \in 1..Len(Stored("s1")) : Stored("s1")[i].by = a

LacksThreadId(rec) == "thread_id" \notin DOMAIN rec

\* C7 (as claimed): deserialize_state with any record that lacks thread_id,
\* the empty record included, fails with an error and leaves the object's
\* thread_id, key_prefix, max_messages and connection unchanged.
C7_MissingFieldStep ==
    \A s \in One : \A rec \in StateRecords :
        (LacksThreadId(rec) /\ deserialize_state(s, rec))
            => ret'.status # "ok" /\ stores' = stores

C7_MissingFieldFails == [][C7_MissingFieldStep]_vars

\* C7 (amended): deserialize_state with a non-empty record that lacks
\* thread_id fails with an error; with the empty record it returns without an
\* error; either way the object's thread_id, key_prefix, max_messages and
\* connection are unchanged.
C7_AmendedStep ==
    \A s \in One : \A rec \in StateRecords :
        (LacksThreadId(rec) /\ deserialize_state(s, rec))
            => /\ stores' = stores
               /\ (DOMAIN rec # {} => ret'.status = "ValidationError")
               /\ (DOMAIN rec = {} => ret'.status = "ok")

C7_MissingFieldAmended == [][C7_AmendedStep]_vars

C7_Witness ==
    /\ ret.op = "deserialize_state"
    /\ ret.status = "ValidationError"
    /\ "s1" \in DOMAIN stores

\* what a record says about the connection target: a well-formed target, or
\* none (the field omitted, None, or empty)
CarriesTarget(rec) == "redis_url" \in DOMAIN rec /\ Truthy(rec["redis_url"])
ValidRecord(rec) ==
    /\ ~LacksThreadId(rec)
    /\ CarriesTarget(rec) => UrlParses(rec["redis_url"])

\* C8: deserialize_state with a valid record sets thread_id, key_prefix and
\* max_messages from the record (an omitted key_prefix or max_messages is its
\* default); the connection is re-established exactly when the record carries a
\* target other than the current one, and an omitted target leaves target and
\* connection as they are; no remote list changes.
C8_ValidRecordStep ==
    \A s \in One : \A rec \in StateRecords :
        (ValidRecord(rec) /\ deserialize_state(s, rec))
            => /\ ret'.status = "ok"
               /\ stores'[s].thread_id = rec["thread_id"]
               /\ stores'[s].key_prefix =
                      (IF "key_prefix" \in DOMAIN rec THEN rec["key_prefix"] ELSE DefaultPrefix)
               /\ stores'[s].max_messages =
                      (IF "max_messages" \in DOMAIN rec THEN rec["max_messages"] ELSE NoMax)
               /\ (ret'.clients = 1
                      <=> (CarriesTarget(rec) /\ rec["redis_url"] # stores[s].redis_url))
               /\ (ret'.clients = 0 => stores'[s].client = stores[s].client)
               /\ (CarriesTarget(rec)
                      => stores'[s].redis_url = rec["redis_url"]
                         /\ stores'[s].client = from_url(rec["redis_url"]))
               /\ (~CarriesTarget(rec)
                      => stores'[s].redis_url = stores[s].redis_url
                         /\ stores'[s].client = stores[s].client
                         /\ ret'.clients = 0)
               /\ redis' = redis

C8_DeserializeOverwrites == [][C8_ValidRecordStep]_vars

\* the object has been moved to another key and another server while lists
\* stay stored under the key it had
C8_Witness ==
    /\ ret.op = "deserialize_state" /\ ret.status = "ok"
    /\ "s1" \in DOMAIN stores
    /\ stores["s1"].client.url = U2
    /\ redis[U1] # << >>
    /\ Stored("s1") # <<>>

\* C9: constructing without a non-empty connection target fails with an error
\* and yields no object; constructing with a (well-formed) target yields the
\* object and issues no command to the remote store.
C9_ConstructStep ==
    \A s \in One : \A url \in CtorUrls : \A tid \in CtorThreadIds :
    \A prefix \in Prefixes : \A max \in CtorMaxes :
        Construct(s, url, tid, prefix, max)
            => /\ (url \in {None, EmptyStr}
                      => ret'.status = "ValueError" /\ stores' = stores
                         /\ s \notin DOMAIN stores')
               /\ (UrlParses(url)
                      => ret'.status = "ok" /\ s \in DOMAIN stores'
                         /\ stores'[s].redis_url = url
                         /\ stores'[s].client = from_url(url)
                         /\ ret'.calls = <<>>)
               /\ redis' = redis

C9_ConstructionNeedsTarget == [][C9_ConstructStep]_vars

C9_Witness ==
    /\ ret.op = "__init__" /\ ret.status = "ValueError"
    /\ DOMAIN stores = {}

Generated(st) == Len(st.thread_id) = 2 /\ st.thread_id[1] = "thread_"

\* the objects whose entries list_messages on st decodes
Authors(st) ==
    LET list == lrange(redis[st.client.url], redis_key(st), 0, -1)
    IN  {list[i].by : i \in 1..Len(list)}

\* C10: two objects constructed without a thread_id have different thread_ids,
\* and with the same prefix and target neither lists a message that was
\* appended through the other, after any interleaving of their add_messages,
\* clear and list_messages calls.
C10_GeneratedIdsIsolate ==
    \A a \in DOMAIN stores : \A b \in DOMAIN stores \ {a} :
        (Generated(stores[a]) /\ Generated(stores[b]))
            => /\ stores[a].thread_id # stores[b].thread_id
               /\ (stores[a].key_prefix = stores[b].key_prefix
                     /\ stores[a].redis_url = stores[b].redis_url)
                      => b \notin Authors(stores[a])

C10_Witness ==
    /\ ret.op = "list_messages" /\ ret.value # <<>>
    /\ DOMAIN stores = Stores
    /\ Generated(stores["s1"]) /\ Generated(stores["s2"])
    /\ stores["s1"].key_prefix = stores["s2"].key_prefix
    /\ stores["s1"].redis_url = stores["s2"].redis_url
    /\ Authors(stores["s1"]) = {"s1"}
    /\ Authors(stores["s2"]) = {"s2"}

(***************************************************************************)
(* add_messages await by await.  Between `await rpush`, `await llen` and   *)
(* `await ltrim` other coroutines and other processes run; a call that is  *)
(* cancelled, or whose process dies, at an await goes no further.          *)
(***************************************************************************)
MaxConc == 4       \* pushes to all keys together (SpecConc, SpecCrash)

Without(f, s) == [t \in DOMAIN f \ {s} |-> f[t]]
With(f, s, v) == [t \in DOMAIN f \cup {s} |-> IF t = s THEN v ELSE f[t]]

\* a slip: the new values pushed one by one from the head
add_extend_reversed(s, messages) ==
    /\ s \in DOMAIN stores
    /\ s \notin DOMAIN inflight
    /\ messages # <<>>
    /\ LET st == stores[s]
           u == st.client.url
           key == redis_key(st)
           entries == [i \in 1..Len(messages) |->
                          Entry(s, messages[Len(messages) + 1 - i])]
       IN  /\ redis' = [redis EXCEPT ![u] = rpush(redis[u], key, entries)]
           /\ pushed' = [pushed EXCEPT ![u] = Recorded(pushed[u], key, messages)]
           /\ IF st.max_messages # NoMax
              THEN /\ inflight' = With(inflight, s, [pc |-> "llen"])
                   /\ ret' = Ret("add_messages", "await", <<>>, <<"rpush">>, 0)
              ELSE /\ inflight' = inflight
                   /\ ret' = Ret("add_messages", "ok", <<>>, <<"rpush">>, 0)
    /\ UNCHANGED <<stores, uuids, closed, apps>>

\* lines 62-67: a non-empty batch is serialized and pushed; with no maximum
\* the call is over
add_extend(s, messages) ==
    /\ s \in DOMAIN stores
    /\ s \notin DOMAIN inflight
    /\ messages # <<>>
    /\ LET st == stores[s]
           u == st.client.url
           key == redis_key(st)
           entries == [i \in 1..Len(messages) |-> Entry(s, messages[i])]
       IN  /\ redis' = [redis EXCEPT ![u] = rpush(redis[u], key, entries)]
           /\ pushed' = [pushed EXCEPT ![u] = Recorded(pushed[u], key, messages)]
           /\ IF st.max_messages # NoMax
              THEN /\ inflight' = With(inflight, s, [pc |-> "llen"])
                   /\ ret' = Ret("add_messages", "await", <<>>, <<"rpush">>, 0)
              ELSE /\ inflight' = inflight
                   /\ ret' = Ret("add_messages", "ok", <<>>, <<"rpush">>, 0)
    /\ UNCHANGED <<stores, uuids, closed, apps>>

\* lines 70-72: the length is read and compared with the maximum
add_measure(s) ==
    /\ s \in DOMAIN inflight
    /\ inflight[s].pc = "llen"
    /\ LET st == stores[s]
           current_count == llen(redis[st.client.url], redis_key(st))
       IN  IF current_count > st.max_messages[1]
           THEN /\ inflight' = With(inflight, s, [pc |-> "ltrim"])
                /\ ret' = Ret("add_messages", "await", <<>>, <<"rpush", "llen">>, 0)
           ELSE /\ inflight' = Without(inflight, s)
                /\ ret' = Ret("add_messages", "ok", <<>>, <<"rpush", "llen">>, 0)
    /\ UNCHANGED <<stores, redis, pushed, uuids, closed, apps>>

\* lines 73-74: the list is cut to its last max_messages entries
add_trim(s) ==
    /\ s \in DOMAIN inflight
    /\ inflight[s].pc = "ltrim"
    /\ LET st == stores[s]
           u == st.client.url
       IN  redis' = [redis EXCEPT
                        ![u] = ltrim(redis[u], redis_key(st), -st.max_messages[1], -1)]
    /\ inflight' = Without(inflight, s)
    /\ ret' = Ret("add_messages", "ok", <<>>, <<"rpush", "llen", "ltrim">>, 0)
    /\ UNCHANGED <<stores, pushed, uuids, closed, apps>>

\* the call is cancelled, or its process dies, at the await it stands at:
\* nothing of what it did is undone
add_abandoned(s) ==
    /\ s \in DOMAIN inflight
    /\ inflight' = Without(inflight, s)
    /\ ret' = Ret("add_messages", "CancelledError", <<>>,
                  IF inflight[s].pc = "llen" THEN <<"rpush">> ELSE <<"rpush", "llen">>, 0)
    /\ UNCHANGED <<stores, redis, pushed, uuids, closed, apps>>

(***************************************************************************)
(* SpecConc: two objects on one key of one server, their add_messages      *)
(* calls interleaved await by await.                                       *)
(***************************************************************************)
ConcConstruct ==
    \E s \in Stores, max \in Maxes : Construct(s, U1, T1, DefaultPrefix, max)

ConcExtend ==
    \E s \in Stores, b \in Batches(Msgs) :
        /\ TotalPushed + Len(b) <= MaxConc
        /\ add_extend(s, b)

ConcMeasure == \E s \in Stores : add_measure(s)

ConcTrim == \E s \in Stores : add_trim(s)

NextConc == ConcConstruct \/ ConcExtend \/ ConcMeasure \/ ConcTrim

SpecConc == Init /\ [][NextConc]_vars

(***************************************************************************)
(* SpecCrash: SpecConc, and a call may be abandoned at any of its awaits.  *)
(***************************************************************************)
ConcAbandon == \E s \in Stores : add_abandoned(s)

NextCrash == NextConc \/ ConcAbandon

SpecCrash == Init /\ [][NextCrash]_vars

\* the objects that address the list of st, and the calls in flight on it
SameList(st) ==
    {t \in DOMAIN stores : /\ stores[t].client.url = st.client.url
                           /\ redis_key(stores[t]) = redis_key(st)}
InFlightOn(st) == SameList(st) \cap DOMAIN inflight

\* C11 (as claimed): when two objects with the same maximum k append to one
\* key, their calls interleaved await by await, the list is longer than k only
\* while a call of one of them is between its extend and the end of its trim;
\* when no call is in flight the list holds at most k entries.
C11_LongOnlyInFlight ==
    \A s \in DOMAIN stores :
        LET k == stores[s].max_messages
        IN  (/\ k # NoMax
             /\ SameList(stores[s]) = Stores
             /\ \A t \in Stores : stores[t].max_messages = k
             /\ Len(Stored(s)) > k[1])
                => InFlightOn(stores[s]) # {}

\* the step of object s is the last of one of its add_messages calls
Completes(s) ==
    /\ s \in DOMAIN inflight
    /\ add_measure(s) \/ add_trim(s)
    /\ ret'.status = "ok"

\* C12 (as claimed): a call abandoned after its extend leaves every remote list
\* as it is, the pushed entries included (nothing is rolled back); and when the
\* objects on a key have the same maximum, the step that completes a call with
\* a non-empty batch leaves at most that many entries under the key.
C12_AbandonStep ==
    \A s \in Stores :
        /\ (s \in DOMAIN inflight /\ add_abandoned(s))
              => redis' = redis
        /\ (/\ Completes(s)
            /\ \A t \in SameList(stores[s]) :
                   stores[t].max_messages = stores[s].max_messages)
              => Len(Get(redis'[stores[s].client.url], redis_key(stores[s])))
                     <= stores[s].max_messages[1]

C12_NextAppendRestoresBound == [][C12_AbandonStep]_vars

(***************************************************************************)
(* aclose.  The object keeps no record of having been closed and none of   *)
(* its methods asks: a later call goes to the same client, and the         *)
(* client's pool, disconnected by aclose, connects again on demand.        *)
(***************************************************************************)
\* a slip: closing a closed object fails
aclose_once(s) ==
    /\ s \in DOMAIN stores
    /\ closed' = closed \cup {s}
    /\ ret' = Ret("aclose", IF s \in closed THEN "RuntimeError" ELSE "ok",
                  <<>>, <<>>, 0)
    /\ UNCHANGED <<stores, redis, pushed, uuids, inflight, apps>>

aclose(s) ==
    /\ s \in DOMAIN stores
    /\ closed' = closed \cup {s}
    /\ ret' = Ret("aclose", "ok", <<>>, <<>>, 0)
    /\ UNCHANGED <<stores, redis, pushed, uuids, inflight, apps>>

(***************************************************************************)
(* SpecLife: Spec, and the object may be closed at any time, and asked for  *)
(* or handed the document of the thread-state protocol.                    *)
(***************************************************************************)
DoAclose == \E s \in One : aclose(s)

DoSerialize == \E s \in One : serialize(s)

\* the documents handed to update_from_state: empty, without the metadata, and
\* with each record deserialize_state is handed
StateDocuments ==
    {<< >>, [messages |-> <<>>]}
        \cup {[messages |-> <<>>, store_metadata |-> rec] : rec \in StateRecords}

DoUpdateFromState ==
    \E s \in One, doc \in StateDocuments : update_from_state(s, doc)

NextLife == Next \/ DoAclose \/ DoSerialize \/ DoUpdateFromState

SpecLife == Init /\ [][NextLife]_vars

\* the step is an add_messages (non-empty batch), list_messages or clear of s
ListOperation(s) ==
    \/ \E b \in Batches({MsgA}) : b # <<>> /\ add_messages(s, b)
    \/ list_messages(s)
    \/ clear(s)

\* aclose has no effect but the release of the connection, and a second aclose
\* has no further effect and does not fail
AcloseIdempotent ==
    \A s \in One :
        aclose(s)
            => /\ ret'.status = "ok"
               /\ s \in closed'
               /\ (s \in closed => closed' = closed)
               /\ stores' = stores /\ redis' = redis

\* C13 (as claimed): aclose releases the connection and is idempotent; after
\* aclose no add_messages, list_messages or clear on the object reads or
\* mutates the remote list.
C13_ClosedStep ==
    /\ AcloseIdempotent
    /\ \A s \in One :
          (s \in closed /\ ListOperation(s))
              => /\ ret'.calls = <<>>
                 /\ redis' = redis

C13_ClosedIsInert == [][C13_ClosedStep]_vars

\* C13 (amended): aclose releases the connection and is idempotent; the object
\* does not refuse a call made after aclose: add_messages with a non-empty
\* batch still pushes the batch to the remote list, list_messages still reads
\* and returns the list, clear still deletes it.
C13_AmendedStep ==
    /\ AcloseIdempotent
    /\ \A s \in One :
          s \in closed
              => /\ \A b \in Batches({MsgA}) :
                       (b # <<>> /\ add_messages(s, b))
                           => /\ ret'.status = "ok"
                              /\ ret'.calls[1] = "rpush"
                              /\ LET list == Get(redis'[stores[s].client.url],
                                                 redis_key(stores[s]))
                                 IN  /\ list # <<>>
                                     /\ list[Len(list)] = Entry(s, b[Len(b)])
                 /\ list_messages(s)
                       => /\ ret'.calls = <<"lrange">>
                          /\ ret'.status = "ok"
                          /\ ret'.value = TheList(s).messages
                 /\ clear(s)
                       => /\ ret'.calls = <<"delete">>
                          /\ redis_key(stores[s]) \notin DOMAIN redis'[stores[s].client.url]

C13_ClosedStillActs == [][C13_AmendedStep]_vars

\* an object that had been closed has appended a batch
C13_Witness ==
    /\ ret.op = "add_messages" /\ ret.calls # <<>>
    /\ "s1" \in DOMAIN stores /\ "s1" \in closed
    /\ Stored("s1") # <<>>

(***************************************************************************)
(* SpecCorrupt: SpecLog's log on a server that other programs write to:    *)
(* an entry that is not the JSON text of a message may be pushed to the    *)
(* key at any time.                                                        *)
(***************************************************************************)
MaxCorrupt == 2    \* undecodable entries under a key at a time

Corrupt == {<<"oops">>, <<"{", "\"role\":", "user">>}

Undecodable(list) == {i \in 1..Len(list) : ~IsJsonMessage(list[i].data)}

foreign_rpush(u, key, data) ==
    /\ Cardinality(Undecodable(Get(redis[u], key))) < MaxCorrupt
    /\ redis' = [redis EXCEPT
                    ![u] = rpush(redis[u], key, <<[data |-> data, by |-> "other"]>>)]
    /\ ret' = Ret("", "ok", <<>>, <<>>, 0)
    /\ UNCHANGED <<stores, pushed, uuids, inflight, closed, apps>>

CorruptAdd ==
    \E s \in One, b \in Batches(Msgs) :
        /\ TotalPushed + Len(b) <= MaxShared
        /\ add_messages(s, b)

CorruptPush ==
    \E s \in DOMAIN stores, data \in Corrupt :
        foreign_rpush(stores[s].client.url, redis_key(stores[s]), data)

NextCorrupt == LogConstruct \/ CorruptAdd \/ CorruptPush \/ LogList \/ LogClear

SpecCorrupt == Init /\ [][NextCorrupt]_vars

\* C14: when an entry of the remote list does not decode, wherever it sits,
\* list_messages fails with an error and returns nothing (no partial
\* sequence, the entry is not skipped), and the remote list is unchanged.
C14_CorruptStep ==
    \A s \in One :
        (/\ s \in DOMAIN stores
         /\ Undecodable(Stored(s)) # {}
         /\ list_messages(s))
            => /\ ret'.status # "ok"
               /\ ret'.value = <<>>
               /\ redis' = redis

C14_CorruptEntryFailsRead == [][C14_CorruptStep]_vars

\* the read has failed on a list whose first and last entries decode
C14_Witness ==
    /\ ret.op = "list_messages" /\ ret.status = "JSONDecodeError"
    /\ "s1" \in DOMAIN stores
    /\ LET list == Stored("s1")
       IN  /\ Len(list) >= 3
           /\ 1 \notin Undecodable(list)
           /\ Len(list) \notin Undecodable(list)

\* C15: what serialize_state returns, and the store_metadata of what
\* serialize returns, has the four configuration fields with the object's
\* values and nothing else; serialize's document has those metadata and a
\* messages field that is empty, whatever the remote list holds.
C15_SerializeStep ==
    \A s \in One :
        /\ serialize_state(s)
              => /\ DOMAIN ret'.value = Fields
                 /\ \A f \in Fields : ret'.value[f] = stores[s][f]
        /\ serialize(s)
              => /\ DOMAIN ret'.value = {"messages", "store_metadata"}
                 /\ ret'.value.messages = <<>>
                 /\ DOMAIN ret'.value.store_metadata = Fields
                 /\ \A f \in Fields : ret'.value.store_metadata[f] = stores[s][f]

C15_StateCarriesNoMessages == [][C15_SerializeStep]_vars

\* the document was made while the list held messages
C15_Witness ==
    /\ ret.op = "serialize"
    /\ "s1" \in DOMAIN stores
    /\ Len(TheList("s1").messages) >= 2
    /\ ret.value.messages = <<>>

\* the step is one of the operations of s that C16 names
FrameOperation(s) ==
    \/ \E b \in Batches({MsgA}) : add_messages(s, b)
    \/ list_messages(s)
    \/ clear(s)
    \/ serialize_state(s)
    \/ serialize(s)
    \/ aclose(s)

\* C16: add_messages, list_messages, clear, serialize_state, serialize and
\* aclose leave thread_id, key_prefix and max_messages, and with them the
\* key key_prefix + ":" + thread_id, as they are.
C16_FrameStep ==
    \A s \in One :
        (s \in DOMAIN stores /\ FrameOperation(s))
            => /\ stores'[s].thread_id = stores[s].thread_id
               /\ stores'[s].key_prefix = stores[s].key_prefix
               /\ stores'[s].max_messages = stores[s].max_messages
               /\ redis_key(stores'[s]) = stores[s].key_prefix \o <<":">> \o stores[s].thread_id

C16_KeyFixedBetweenRestores == [][C16_FrameStep]_vars

\* an object that was reconfigured to another key has since appended, been
\* cleared and been closed
C16_Witness ==
    /\ ret.op = "clear"
    /\ "s1" \in DOMAIN stores /\ "s1" \in closed
    /\ stores["s1"].key_prefix = Lab11
    /\ redis[U1] # << >>

(***************************************************************************)
(* Lab 04: the session loop of src/04-human-in-loop/app.py.  A typed line  *)
(* is a sequence of characters.  The agent is outside the program: a run   *)
(* either answers with text or returns an approval request for the one     *)
(* tool declared with approval_mode="always_require", submit_payment,      *)
(* which the framework invokes only in a run that continues such a request.*)
(***************************************************************************)
MaxRuns == 4       \* agent.run calls of a session

Spaces == {" ", "\t"}

UpperLower == {<<"E", "e">>, <<"I", "i">>, <<"N", "n">>, <<"O", "o">>, <<"Q", "q">>,
               <<"S", "s">>, <<"T", "t">>, <<"U", "u">>, <<"X", "x">>, <<"Y", "y">>}

\* str.lower()
lower(str) ==
    [i \in 1..Len(str) |->
        IF \E p \in UpperLower : p[1] = str[i]
        THEN (CHOOSE p \in UpperLower : p[1] = str[i])[2]
        ELSE str[i]]

\* str.strip()
RECURSIVE strip(_)
strip(str) ==
    IF str = <<>> THEN str
    ELSE IF str[1] \in Spaces THEN strip(Tail(str))
    ELSE IF str[Len(str)] \in Spaces THEN strip(SubSeq(str, 1, Len(str) - 1))
    ELSE str

Yes == <<"y", "e", "s">>
Exits == {<<"e", "x", "i", "t">>, <<"q", "u", "i", "t">>}

\* the lines typed at "You: "
UserInputs ==
    {<<"e", "x", "i", "t">>, <<"Q", "u", "i", "t", " ">>, <<>>, <<" ", " ">>,
     <<"p", "a", "y">>, <<"y", "e", "s">>}

\* the lines typed at "Do you approve? (yes/no): "
Approvals ==
    {<<"y", "e", "s">>, <<"Y", "E", "S">>, <<" ", "Y", "e", "s", "\t">>,
     <<"n", "o">>, <<>>, <<"y">>, <<"y", "e", "s", "!">>, <<"y", "e", " ", "s">>,
     <<"e", "x", "i", "t">>}

main_start ==
    /\ lab04 = NoSession
    /\ lab04' = [pc |-> "input", runs |-> 0, requests |-> 0, followups |-> 0,
                 payments |-> 0, approval |-> <<"-">>, printed |-> "banner"]
    /\ UNCHANGED <<stores, redis, pushed, uuids, ret, inflight, closed, lab11, lab10>>

\* lines 27-42 and 58-59: a line is read, and unless it ends the session or
\* is blank a run is made, which may come back with an approval request
main_input(user_input, asks) ==
    /\ lab04.pc = "input"
    /\ lab04.runs < MaxRuns
    /\ lab04' =
          IF lower(strip(user_input)) \in Exits
          THEN [lab04 EXCEPT !.pc = "exit", !.printed = "Goodbye!"]
          ELSE IF strip(user_input) = <<>>
          THEN lab04
          ELSE IF asks
          THEN [lab04 EXCEPT !.pc = "approval", !.runs = @ + 1,
                             !.requests = @ + 1, !.printed = "APPROVAL REQUIRED"]
          ELSE [lab04 EXCEPT !.runs = @ + 1, !.printed = "result.text"]
    /\ UNCHANGED <<stores, redis, pushed, uuids, ret, inflight, closed, lab11, lab10>>

\* a slip: the answer is compared as it was typed
approves_as_typed(approval) == approval = Yes

\* line 47 and 49: input(...).strip(), then approval.lower() == "yes"
approves(approval) == lower(strip(approval)) = Yes

\* lines 47-57: the answer is read; "yes" continues the run, in which the
\* framework invokes the approved function; anything else prints the
\* cancellation
main_approval(typed) ==
    /\ lab04.pc = "approval"
    /\ lab04' =
          IF approves(typed)
          THEN [lab04 EXCEPT !.pc = "input", !.runs = @ + 1, !.followups = @ + 1,
                             !.payments = @ + 1, !.approval = typed,
                             !.printed = "followup.text"]
          ELSE [lab04 EXCEPT !.pc = "input", !.approval = typed,
                             !.printed = "Payment cancelled."]
    /\ UNCHANGED <<stores, redis, pushed, uuids, ret, inflight, closed, lab11, lab10>>

Input04 == \E user_input \in UserInputs, asks \in BOOLEAN : main_input(user_input, asks)

Approval04 == \E typed \in Approvals : main_approval(typed)

Next04 == main_start \/ Input04 \/ Approval04

Spec04 == Init /\ [][Next04]_vars

\* the characters of the answer, surrounding blanks aside, spell yes in any case
AnsweredYes(typed) ==
    \E a \in 0..Len(typed), b \in 0..Len(typed) :
        /\ a + 3 + b = Len(typed)
        /\ \A i \in 1..a : typed[i] \in Spaces
        /\ \A i \in (a + 4)..Len(typed) : typed[i] \in Spaces
        /\ typed[a + 1] \in {"y", "Y"}
        /\ typed[a + 2] \in {"e", "E"}
        /\ typed[a + 3] \in {"s", "S"}

\* C17: a payment is executed, and a follow-up run made, only in the step
\* that reads the answer to an approval request, and only when the answer is
\* yes in any case; every other answer makes no run, executes nothing and
\* prints the cancellation; so payments never outnumber approval requests.
C17_ApprovalStep ==
    /\ (lab04 # NoSession /\ lab04' # NoSession)
          => /\ (lab04'.followups # lab04.followups \/ lab04'.payments # lab04.payments)
                   => /\ lab04.pc = "approval"
                      /\ AnsweredYes(lab04'.approval)
                      /\ lab04'.followups = lab04.followups + 1
                      /\ lab04'.payments = lab04.payments + 1
             /\ \A typed \in Approvals :
                   main_approval(typed)
                       => IF AnsweredYes(typed)
                          THEN /\ lab04'.followups = lab04.followups + 1
                               /\ lab04'.runs = lab04.runs + 1
                          ELSE /\ lab04'.runs = lab04.runs
                               /\ lab04'.followups = lab04.followups
                               /\ lab04'.payments = lab04.payments
                               /\ lab04'.printed = "Payment cancelled."
             /\ lab04'.payments <= lab04'.requests

C17_PaymentNeedsApproval == [][C17_ApprovalStep]_vars

\* a request was refused, and a later one approved with an answer in capitals
C17_Witness ==
    /\ lab04 # NoSession
    /\ lab04.pc = "input"
    /\ lab04.requests = 2
    /\ lab04.payments = 1
    /\ lab04.approval = <<"Y", "E", "S">>

\* what the remote list of s would hold had nothing been trimmed
PushedEntries(s) ==
    [i \in 1..Len(TheHistory(s)) |-> serialize_message(TheHistory(s)[i])]

\* C18: with no clear, under every interleaving of the steps of the
\* add_messages calls of the objects on a key, whatever their maxima, the
\* stored list is a contiguous suffix of everything pushed to the key, in the
\* order it was pushed, each batch in one piece.
C18_StoredIsSuffixOfPushed ==
    \A s \in DOMAIN stores : IsSuffix(Datas(Stored(s)), PushedEntries(s))

\* two objects with different maxima have both appended, part of what was
\* pushed has been trimmed away, and a call is still in flight
C18_Witness ==
    /\ DOMAIN stores = Stores
    /\ stores["s1"].max_messages # stores["s2"].max_messages
    /\ Authors(stores["s1"]) = Stores
    /\ Len(Stored("s1")) < Len(TheHistory("s1"))
    /\ Len(Stored("s1")) >= 2
    /\ Stored("s1")[1].data # Stored("s1")[2].data
    /\ inflight # << >>

(***************************************************************************)
(* SpecKeys: two objects on one server, constructed with prefixes and      *)
(* thread ids of every shape the constructor takes, the delimiter ":"      *)
(* inside them included.                                                   *)
(***************************************************************************)
KeyPrefixes == {DefaultPrefix, EmptyStr, <<"a">>, <<"a", ":", "b">>}
KeyThreadIds == {None, T1, <<"c">>, <<"b", ":", "c">>}

KeysConstruct ==
    \E s \in Stores, tid \in KeyThreadIds, prefix \in KeyPrefixes :
        Construct(s, U1, tid, prefix, NoMax)

KeysAdd ==
    \E s \in Stores, b \in Batches({MsgA}) :
        /\ TotalPushed + Len(b) <= MaxShared
        /\ add_messages(s, b)

KeysList == \E s \in Stores : list_messages(s)

NextKeys == KeysConstruct \/ KeysAdd \/ KeysList

SpecKeys == Init /\ [][NextKeys]_vars

SamePair(a, b) ==
    /\ stores[a].key_prefix = stores[b].key_prefix
    /\ stores[a].thread_id = stores[b].thread_id

SameTarget(a, b) == stores[a].client.url = stores[b].client.url

HasDelimiter(str) == \E i \in 1..Len(str) : str[i] = ":"

\* C19 (as claimed): two objects on one target with equal (key_prefix,
\* thread_id) pairs hold the same list and list the same messages, and two
\* whose pairs differ never list a message appended through the other.
C19_PairsDecideSharing ==
    \A a \in DOMAIN stores : \A b \in DOMAIN stores \ {a} :
        SameTarget(a, b)
            => /\ SamePair(a, b)
                  => Stored(a) = Stored(b) /\ TheList(a) = TheList(b)
               /\ ~SamePair(a, b) => b \notin Authors(stores[a])

\* C19 (amended): two objects on one target hold the same list exactly when
\* the strings key_prefix + ":" + thread_id are equal.  Equal pairs always
\* are; pairs that differ are too when a ":" inside a component makes the
\* strings equal, and never when neither prefix contains ":".
C19_KeysDecideSharing ==
    \A a \in DOMAIN stores : \A b \in DOMAIN stores \ {a} :
        LET ka == stores[a].key_prefix \o <<":">> \o stores[a].thread_id
            kb == stores[b].key_prefix \o <<":">> \o stores[b].thread_id
        IN  SameTarget(a, b)
                => /\ SamePair(a, b) => ka = kb
                   /\ ka = kb => Stored(a) = Stored(b) /\ TheList(a) = TheList(b)
                   /\ ka # kb => b \notin Authors(stores[a])
                   /\ (/\ ~HasDelimiter(stores[a].key_prefix)
                       /\ ~HasDelimiter(stores[b].key_prefix)
                       /\ ~SamePair(a, b))
                          => ka # kb

\* two objects whose pairs differ in both components list each other's
\* messages
C19_Witness ==
    /\ DOMAIN stores = Stores
    /\ stores["s1"].key_prefix # stores["s2"].key_prefix
    /\ stores["s1"].thread_id # stores["s2"].thread_id
    /\ Authors(stores["s1"]) = Stores
    /\ ret.op = "list_messages" /\ Len(ret.value) = 2

(***************************************************************************)
(* Lab 11: the interactive loop of src/11-external-persistence/app.py.     *)
(* The objects the session makes are named in the order they are made.     *)
(* The server may hold lists that earlier sessions or other programs left  *)
(* under the prefix.  An agent run appends the prompt and the reply to the *)
(* message store of the thread it is given.                                *)
(***************************************************************************)
FactoryMax == 200
MaxSent == 2       \* agent runs of a lab 11 session

SessionNames == <<"s1", "s2", "s3", "s4", "s5">>

Digits == <<"0", "1", "2", "3", "4", "5", "6", "7", "8", "9">>

\* str.isdigit() on the characters the model types
isdigit(str) ==
    /\ str # <<>>
    /\ \A i \in 1..Len(str) : \E d \in 1..Len(Digits) : Digits[d] = str[i]

RECURSIVE int(_)
int(str) ==
    IF str = <<>> THEN 0
    ELSE 10 * int(SubSeq(str, 1, Len(str) - 1))
            + (CHOOSE d \in 1..Len(Digits) : Digits[d] = str[Len(str)]) - 1

startswith(str, prefix) ==
    Len(str) >= Len(prefix) /\ SubSeq(str, 1, Len(prefix)) = prefix

thread_id_from_key(full_key, prefix) ==
    IF startswith(full_key, prefix \o <<":">>)
    THEN SubSeq(full_key, Len(prefix) + 2, Len(full_key))
    ELSE full_key

\* the order of the tokens of the keys as strings
TokenOrder == <<":", "lab11", "thread_", "uuid-1", "uuid-2", "uuid-3", "x">>
Rank(tok) == CHOOSE i \in 1..Len(TokenOrder) : TokenOrder[i] = tok

RECURSIVE Before(_, _)
Before(a, b) ==
    IF a = <<>> THEN b # <<>>
    ELSE IF b = <<>> THEN FALSE
    ELSE IF a[1] = b[1] THEN Before(Tail(a), Tail(b))
    ELSE Rank(a[1]) < Rank(b[1])

\* list.sort()
RECURSIVE sorted(_)
sorted(S) ==
    IF S = {} THEN <<>>
    ELSE LET m == CHOOSE x \in S : \A y \in S \ {x} : Before(x, y)
         IN  <<m>> \o sorted(S \ {m})

\* keys(f"{prefix}:*"), sorted; nothing when the server is not reached
list_saved_thread_keys(st, reached) ==
    IF reached
    THEN sorted({k \in DOMAIN redis[st.client.url] : startswith(k, st.key_prefix \o <<":">>)})
    ELSE <<>>

\* store_factory()
store_factory(uuid) == Init_store(U1, None, Lab11, <<FactoryMax>>, uuid).self

NextName == SessionNames[Cardinality(DOMAIN stores) + 1]
AfterNextName == SessionNames[Cardinality(DOMAIN stores) + 2]

Menu == lab11 # NoSession /\ lab11.pc = "menu"

\* line 182: the first thread and its store
demo_start ==
    /\ lab11 = NoSession
    /\ stores' = With(stores, NextName, store_factory(UuidToken[uuids + 1]))
    /\ uuids' = uuids + 1
    /\ lab11' = [pc |-> "menu", thread |-> NextName, store |-> NextName,
                 sent |-> 0, printed |-> <<"welcome">>]
    /\ UNCHANGED <<redis, pushed, ret, inflight, closed, lab04, lab10>>

\* choice "1": a non-blank prompt is run on the thread
demo_send(prompt) ==
    /\ Menu
    /\ IF strip(prompt) = <<>>
       THEN /\ lab11' = [lab11 EXCEPT !.printed = <<"Please enter a non-empty prompt.">>]
            /\ UNCHANGED <<redis, pushed, ret>>
       ELSE /\ lab11.sent < MaxSent
            /\ LET s == lab11.thread
                   st == stores[s]
                   u == st.client.url
                   messages == <<MsgA, MsgB>>
                   entries == [i \in 1..Len(messages) |-> Entry(s, messages[i])]
                   eff == Add_effect(redis[u], redis_key(st), entries, st.max_messages)
               IN  /\ redis' = [redis EXCEPT ![u] = eff.db]
                   /\ pushed' = [pushed EXCEPT
                                    ![u] = Recorded(pushed[u], redis_key(st), messages)]
                   /\ ret' = Ret("add_messages", "ok", <<>>, eff.calls, 0)
            /\ lab11' = [lab11 EXCEPT !.sent = @ + 1,
                                      !.printed = <<"Assistant replied:">>]
    /\ UNCHANGED <<stores, uuids, inflight, closed, lab04, lab10>>

\* choice "2": show_history(store)
demo_peek ==
    /\ Menu
    /\ LET res == List_result(stores[lab11.store], redis)
       IN  IF res.raised = ""
           THEN /\ ret' = Ret("list_messages", "ok", res.messages, <<"lrange">>, 0)
                /\ lab11' = [lab11 EXCEPT !.printed = <<"history">>]
           ELSE /\ ret' = Ret("list_messages", res.raised, <<>>, <<"lrange">>, 0)
                /\ lab11' = [lab11 EXCEPT !.pc = "raised", !.printed = <<"Traceback">>]
    /\ UNCHANGED <<stores, redis, pushed, uuids, inflight, closed, lab04, lab10>>

\* choice "3": load_existing_thread
demo_load(selection, reached) ==
    /\ Menu
    /\ LET current_store == stores[lab11.store]
           keys == list_saved_thread_keys(current_store, reached)
       IN  IF keys = <<>>
           THEN /\ lab11' = [lab11 EXCEPT !.printed = <<"There are no persisted threads yet.">>]
                /\ UNCHANGED <<stores, uuids, closed, ret>>
           ELSE IF strip(selection) = <<>>
           THEN /\ lab11' = [lab11 EXCEPT !.printed = <<"Cancelled loading an existing thread.">>]
                /\ UNCHANGED <<stores, uuids, closed, ret>>
           ELSE IF ~isdigit(strip(selection))
           THEN /\ lab11' = [lab11 EXCEPT !.printed = <<"Please enter a numeric option.">>]
                /\ UNCHANGED <<stores, uuids, closed, ret>>
           ELSE IF int(strip(selection)) < 1 \/ int(strip(selection)) > Len(keys)
           THEN /\ lab11' = [lab11 EXCEPT !.printed = <<"That index does not exist.">>]
                /\ UNCHANGED <<stores, uuids, closed, ret>>
           ELSE LET selected_key == keys[int(strip(selection))]
                    thread_id == thread_id_from_key(selected_key, current_store.key_prefix)
                    new_store == Init_store(current_store.redis_url, thread_id,
                                            current_store.key_prefix,
                                            current_store.max_messages,
                                            UuidToken[uuids + 1]).self
                    uuids1 == IF Truthy(thread_id) THEN uuids ELSE uuids + 1
                    placeholder_store == store_factory(UuidToken[uuids1 + 1])
                IN  /\ uuids1 < Len(UuidToken)
                    /\ Cardinality(DOMAIN stores) + 2 <= Len(SessionNames)
                    /\ stores' = With(With(stores, NextName, new_store),
                                      AfterNextName, placeholder_store)
                    /\ uuids' = uuids1 + 1
                    /\ closed' = closed \cup {AfterNextName, lab11.store}
                    /\ LET res == List_result(new_store, redis)
                       IN  IF res.raised = ""
                           THEN /\ ret' = Ret("list_messages", "ok", res.messages,
                                              <<"lrange">>, 0)
                                /\ lab11' = [lab11 EXCEPT
                                                !.thread = NextName, !.store = NextName,
                                                !.printed = <<"Loaded thread:">> \o selected_key]
                           ELSE /\ ret' = Ret("list_messages", res.raised, <<>>,
                                              <<"lrange">>, 0)
                                /\ lab11' = [lab11 EXCEPT !.pc = "raised",
                                                          !.printed = <<"Traceback">>]
    /\ UNCHANGED <<redis, pushed, inflight, lab04, lab10>>

Confirmations == {<<"y">>, <<"Y", "E", "S">>, <<" ", "y", " ">>, <<>>, <<"n">>, <<"N">>}

\* choice "4": after a confirmation, the store is closed and a thread made
demo_fresh(confirm) ==
    /\ Menu
    /\ IF lower(strip(confirm)) \notin {<<"y">>, Yes}
       THEN /\ lab11' = [lab11 EXCEPT !.printed = <<"Keeping current thread.">>]
            /\ UNCHANGED <<stores, uuids, closed>>
       ELSE /\ uuids < Len(UuidToken)
            /\ Cardinality(DOMAIN stores) + 1 <= Len(SessionNames)
            /\ closed' = closed \cup {lab11.store}
            /\ stores' = With(stores, NextName, store_factory(UuidToken[uuids + 1]))
            /\ uuids' = uuids + 1
            /\ lab11' = [lab11 EXCEPT !.thread = NextName, !.store = NextName,
                                      !.printed = <<"Started a brand-new thread + Redis list.">>]
    /\ UNCHANGED <<redis, pushed, ret, inflight, lab04, lab10>>

\* choice "0"
demo_exit ==
    /\ Menu
    /\ closed' = closed \cup {lab11.store}
    /\ lab11' = [lab11 EXCEPT !.pc = "exit", !.printed = <<"Goodbye! Closing Redis connection...">>]
    /\ UNCHANGED <<stores, redis, pushed, uuids, ret, inflight, lab04, lab10>>

\* any other choice
demo_unknown ==
    /\ Menu
    /\ lab11' = [lab11 EXCEPT !.printed = <<"Unknown option. Please try again.">>]
    /\ UNCHANGED <<stores, redis, pushed, uuids, ret, inflight, closed, lab04, lab10>>

Selections ==
    {<<>>, <<" ">>, <<"x">>, <<"1", "x">>, <<"0">>, <<"1">>, <<"2">>, <<"0", "1">>,
     <<"3">>, <<"9">>, <<"1", "2">>}

Send11 == \E prompt \in {<<>>, <<"h", "i">>} : demo_send(prompt)
Load11 == \E selection \in Selections, reached \in BOOLEAN : demo_load(selection, reached)
Fresh11 == \E confirm \in Confirmations : demo_fresh(confirm)

Next11 ==
    demo_start \/ Send11 \/ demo_peek \/ Load11 \/ Fresh11 \/ demo_exit \/ demo_unknown

\* the lists found on the server when the session starts
SavedKeys == {<<"lab11", ":">>, <<"lab11", ":", "x">>}

Init11 ==
    /\ stores = << >>
    /\ \E found \in SUBSET SavedKeys :
          redis = [u \in Urls |->
                      IF u = U1
                      THEN [k \in found |-> <<[data |-> serialize_message(MsgA), by |-> "other"]>>]
                      ELSE << >>]
    /\ pushed = [u \in Urls |-> << >>]
    /\ uuids = 0
    /\ ret = Ret("", "ok", <<>>, <<>>, 0)
    /\ inflight = << >>
    /\ closed = {}
    /\ lab04 = NoSession
    /\ lab11 = NoSession
    /\ lab10 = NoSession

Spec11 == Init11 /\ [][Next11]_vars

\* what a load that loads nothing prints
NothingLoaded ==
    {<<"There are no persisted threads yet.">>, <<"Cancelled loading an existing thread.">>,
     <<"Please enter a numeric option.">>, <<"That index does not exist.">>}

\* C20 (as claimed): whenever the menu is shown, store is the message store of
\* the active thread and is not closed, and every other object the session has
\* made is closed; a load that is cancelled, is given a non-numeric or
\* out-of-range index or finds no keys leaves thread and store as they were;
\* after a successful load the key of store is the key that was selected.
C20_MenuStep ==
    (lab11' # NoSession /\ lab11'.pc = "menu")
        => /\ lab11'.store = lab11'.thread
           /\ lab11'.store \in DOMAIN stores'
           /\ lab11'.store \notin closed'
           /\ DOMAIN stores' \ {lab11'.store} \subseteq closed'
           /\ \A selection \in Selections : \A reached \in BOOLEAN :
                 demo_load(selection, reached)
                     => /\ lab11'.printed \in NothingLoaded
                           => /\ lab11'.store = lab11.store
                              /\ lab11'.thread = lab11.thread
                              /\ stores' = stores
                              /\ closed' = closed
                        /\ lab11'.printed \notin NothingLoaded
                           => /\ lab11'.printed[1] = "Loaded thread:"
                              /\ redis_key(stores'[lab11'.store]) = Tail(lab11'.printed)

C20_StoreIsTheOpenOne == [][C20_MenuStep]_vars

(***************************************************************************)
(* Lab 10: the menu loop of src/10-persisting-conversations/app.py.  A     *)
(* typed line is a sequence of characters; a saved thread is the slug its  *)
(* file is named by.  `answered` is history: the prompts answered on the   *)
(* active thread since a file was last written for it, or it was loaded or *)
(* started.                                                                *)
(***************************************************************************)
MaxExchanges == 2  \* prompts answered on one thread of a lab 10 session

Lowercase == {"a", "b", "c", "d", "e", "f", "g", "h", "i", "j", "k", "l", "m",
              "n", "o", "p", "q", "r", "s", "t", "u", "v", "w", "x", "y", "z"}

SlugChars == Lowercase \cup {Digits[d] : d \in 1..Len(Digits)} \cup {"-"}

\* re.sub(r"-+", "-", ...)
RECURSIVE collapse(_)
collapse(str) ==
    IF Len(str) < 2 THEN str
    ELSE IF str[1] = "-" /\ str[2] = "-" THEN collapse(Tail(str))
    ELSE <<str[1]>> \o collapse(Tail(str))

\* str.strip("-")
RECURSIVE strip_dashes(_)
strip_dashes(str) ==
    IF str = <<>> THEN str
    ELSE IF str[1] = "-" THEN strip_dashes(Tail(str))
    ELSE IF str[Len(str)] = "-" THEN strip_dashes(SubSeq(str, 1, Len(str) - 1))
    ELSE str

Conversation == <<"c", "o", "n", "v", "e", "r", "s", "a", "t", "i", "o", "n">>
Unsaved == <<"u", "n", "s", "a", "v", "e", "d">>

\* _slugify: every run of other characters becomes one "-"
slugify(name) ==
    LET lowered == lower(strip(name))
        replaced == [i \in 1..Len(lowered) |->
                        IF lowered[i] \in SlugChars THEN lowered[i] ELSE "-"]
        slug == strip_dashes(collapse(replaced))
    IN  IF slug = <<>> THEN Conversation ELSE slug

\* save_current_thread: the name and flag it returns, the files afterwards
save_current_thread(thread, active_label, typed, files, dirty) ==
    IF thread = None
    THEN [saved_name |-> None, dirty |-> TRUE, files |-> files, wrote |-> FALSE]
    ELSE IF active_label = Unsaved /\ strip(typed) = <<>>
    THEN [saved_name |-> None, dirty |-> TRUE, files |-> files, wrote |-> FALSE]
    ELSE LET name == IF active_label = Unsaved THEN strip(typed) ELSE active_label
             slug == slugify(name)
         IN  [saved_name |-> slug, dirty |-> FALSE, files |-> files \cup {slug},
              wrote |-> TRUE]

Trip == <<"t", "r", "i", "p">>

\* the names typed at "Friendly name to save as: " and at the load prompt
Names ==
    {<<>>, <<" ">>, Trip, <<" ", "T", "r", "i", "p", "!">>, <<"?">>, Unsaved}

\* lines 190-193; the directory may hold threads saved by earlier sessions
menu_start ==
    /\ lab10 = NoSession
    /\ \E found \in SUBSET {Trip} :
          lab10' = [pc |-> "prompt", thread |-> <<"thread">>, label |-> Unsaved,
                    dirty |-> FALSE, log |-> 0, answered |-> 0, files |-> found,
                    printed |-> "layout"]
    /\ UNCHANGED <<stores, redis, pushed, uuids, ret, inflight, closed, lab04, lab11>>

AtPrompt == lab10 # NoSession /\ lab10.pc = "prompt"

\* F10, lines 199-203
menu_save(typed) ==
    /\ AtPrompt
    /\ LET res == save_current_thread(lab10.thread, lab10.label, typed,
                                      lab10.files, lab10.dirty)
       IN  lab10' = [lab10 EXCEPT
                        !.dirty = res.dirty,
                        !.label = IF Truthy(res.saved_name) THEN res.saved_name ELSE @,
                        !.files = res.files,
                        !.answered = IF res.wrote THEN 0 ELSE @,
                        !.printed = IF res.wrote THEN "Thread saved as"
                                    ELSE "A thread name is required to save it."]
    /\ UNCHANGED <<stores, redis, pushed, uuids, ret, inflight, closed, lab04, lab11>>

\* F2, lines 204-207 and handle_new_thread
menu_new(choice, typed) ==
    /\ AtPrompt
    /\ LET asked == lab10.dirty /\ lower(strip(choice)) \in {<<"y">>, Yes}
           res == save_current_thread(lab10.thread, lab10.label, typed,
                                      lab10.files, lab10.dirty)
       IN  lab10' = [lab10 EXCEPT
                        !.thread = <<"thread">>,
                        !.label = Unsaved,
                        !.dirty = FALSE,
                        !.log = 0,
                        !.answered = 0,
                        !.files = IF asked THEN res.files ELSE @,
                        !.printed = "Started a fresh thread."]
    /\ UNCHANGED <<stores, redis, pushed, uuids, ret, inflight, closed, lab04, lab11>>

\* F4, lines 208-215 and load_existing_thread
menu_load(choice) ==
    /\ AtPrompt
    /\ lab10' =
          IF lab10.files = {}
          THEN [lab10 EXCEPT !.printed = "No saved threads found yet."]
          ELSE IF strip(choice) = <<>>
          THEN [lab10 EXCEPT !.printed = "Load cancelled."]
          ELSE IF slugify(strip(choice)) \notin lab10.files
          THEN [lab10 EXCEPT !.printed = "Thread not found."]
          ELSE [lab10 EXCEPT !.thread = <<"thread">>,
                             !.label = slugify(strip(choice)),
                             !.dirty = FALSE,
                             !.log = 0,
                             !.answered = 0,
                             !.printed = "Loaded thread"]
    /\ UNCHANGED <<stores, redis, pushed, uuids, ret, inflight, closed, lab04, lab11>>

\* F12, lines 216-218
menu_open_folder ==
    /\ AtPrompt
    /\ lab10' = [lab10 EXCEPT !.printed = "Persisted threads directory:"]
    /\ UNCHANGED <<stores, redis, pushed, uuids, ret, inflight, closed, lab04, lab11>>

\* a typed line, lines 220-230
menu_prompt(prompt) ==
    /\ AtPrompt
    /\ IF strip(prompt) = <<>>
       THEN lab10' = [lab10 EXCEPT !.printed = "(Empty prompt)"]
       ELSE IF lower(strip(prompt)) \in Exits
       THEN lab10' = [lab10 EXCEPT !.pc = "exit", !.printed = "Goodbye!"]
       ELSE /\ lab10.log < MaxExchanges
            /\ lab10' = [lab10 EXCEPT !.dirty = TRUE, !.log = @ + 1,
                                      !.answered = @ + 1, !.printed = "ASSISTANT>"]
    /\ UNCHANGED <<stores, redis, pushed, uuids, ret, inflight, closed, lab04, lab11>>

Save10 == \E typed \in Names : menu_save(typed)
New10 == \E choice \in Confirmations, typed \in Names : menu_new(choice, typed)
Load10 == \E choice \in Names : menu_load(choice)
Prompt10 ==
    \E prompt \in {<<>>, <<"h", "i">>, <<"E", "x", "i", "t">>} : menu_prompt(prompt)

Next10 == menu_start \/ Save10 \/ New10 \/ Load10 \/ menu_open_folder \/ Prompt10

Spec10 == Init /\ [][Next10]_vars

\* C21 (as claimed): whenever the loop reads a key or line, dirty is true
\* exactly when a prompt has been answered on the active thread since it was
\* last written to a file, loaded or started; so a save that writes no file,
\* on a thread with nothing answered since, leaves dirty false.
C21_DirtyMeansUnsaved ==
    AtPrompt => (lab10.dirty <=> lab10.answered > 0)
====
